---- MODULE Spec2Model ----
(***************************************************************************)
(* A model of the weak heap of src/src/lib.rs (WeakHeap<T>): the value    *)
(* sequence `data`, the reverse-bit sequence `bit`, the three sifting      *)
(* primitives and the public operations built on them.                     *)
(*                                                                         *)
(* Rust vectors are 0-based; the model keeps the code's 0-based indices    *)
(* and reads/writes TLA+ sequences through Get/Set (index + 1).            *)
(* Elements are integers 1..MaxVal compared with <, standing for T: Ord.   *)
(* Option<T> is a sequence of length <= 1: None is << >>, Some(v) is <<v>>.*)
(***************************************************************************)
EXTENDS Integers, Sequences, FiniteSets, TLC

\* ------------------------------------------------------------------ bounds
MaxLen == 4      \* most elements the guards let the two heaps hold together
MaxVal == 3      \* elements are drawn from 1..MaxVal
MaxVec == 2      \* longest plain sequence handed to extend / append_vec
MaxOther == 2    \* largest size of the second heap (the argument of append)

Vals == 1..MaxVal

\* All sequences over S of length 0..n.
SeqsUpTo(S, n) == UNION {[1..k -> S] : k \in 0..n}

\* ------------------------------------------------- Vec<T> / Option<T> glue
Get(s, i) == s[i + 1]
Set(s, i, v) == [s EXCEPT ![i + 1] = v]
SwapAt(s, i, j) == [s EXCEPT ![i + 1] = s[j + 1], ![j + 1] = s[i + 1]]
Flip(b, i) == [b EXCEPT ![i + 1] = ~b[i + 1]]
Front(s) == SubSeq(s, 1, Len(s) - 1)
VecPop(s) == IF s = << >> THEN << >> ELSE Front(s)
Falses(n) == [k \in 1..n |-> FALSE]
AsUsize(b) == IF b THEN 1 ELSE 0
None == << >>
Some(v) == <<v>>

Heap(d, b) == [data |-> d, bit |-> b]
EmptyHeap == Heap(<< >>, << >>)

\* WeakHeap::len, WeakHeap::is_empty, WeakHeap::peek
len(h) == Len(h.data)
is_empty(h) == len(h) = 0
peek(h) == IF Len(h.data) > 0 THEN Some(Get(h.data, 0)) ELSE None

\* ------------------------------------------------------ sifting primitives
\* The inner climbing loop shared by sift_up and sift_up_push: `ancestor` is
\* always cur / 2 (both are halved together), so only cur is carried.
RECURSIVE Climb(_, _, _)
Climb(b, start, cur) ==
    IF (cur \div 2) > start /\ (cur % 2 = AsUsize(Get(b, cur \div 2)))
    THEN Climb(b, start, cur \div 2)
    ELSE cur

\* `2 * pos - 1 < len` on usize: with pos = 0 the subtraction wraps to
\* usize::MAX in a release build (and panics in a debug build), so the test
\* is false there; for pos >= 1 it is the plain comparison.
TwoPosMinusOneLtLen(pos, n) == IF pos = 0 THEN FALSE ELSE 2 * pos - 1 < n

\* Mutant of sift_up: the ancestor is taken to be pos / 2, the bits unread.
sift_up_BinaryParent(h, start, pos) ==
    LET n == Len(h.data)
        ancestor == pos \div 2
    IN IF Get(h.data, ancestor) < Get(h.data, pos)
       THEN Heap(SwapAt(h.data, ancestor, pos),
                 IF TwoPosMinusOneLtLen(pos, n) THEN Flip(h.bit, pos) ELSE h.bit)
       ELSE h

\* sift_up(start, pos): one conditional swap with the bit-chased ancestor.
sift_up(h, start, pos) ==
    LET n == Len(h.data)
        ancestor == Climb(h.bit, start, pos) \div 2
    IN IF Get(h.data, ancestor) < Get(h.data, pos)
       THEN Heap(SwapAt(h.data, ancestor, pos),
                 IF TwoPosMinusOneLtLen(pos, n) THEN Flip(h.bit, pos) ELSE h.bit)
       ELSE h

\* Iterations of the inner climbing loop from cur.
RECURSIVE ClimbIters(_, _, _)
ClimbIters(b, start, cur) ==
    IF (cur \div 2) > start /\ (cur % 2 = AsUsize(Get(b, cur \div 2)))
    THEN 1 + ClimbIters(b, start, cur \div 2)
    ELSE 0

\* Mutant of SiftUpCmps: every step of the climb compares elements too.
SiftUpCmps_ClimbCompares(h, start, pos) == 1 + ClimbIters(h.bit, start, pos)

\* Element comparisons of one sift_up call: the climb reads bits only, then
\* `data[ancestor] < data[pos]` is evaluated once, whatever the outcome.
SiftUpCmps(h, start, pos) == Cardinality({Climb(h.bit, start, pos) \div 2})

\* Swaps of one sift_up call.
SiftUpSwaps(h, start, pos) ==
    IF Get(h.data, Climb(h.bit, start, pos) \div 2) < Get(h.data, pos)
    THEN 1 ELSE 0

\* Mutant of SiftUpPushLoop: on the early break the hole is not filled
\* again, the slot keeping the copy left by the last move.
RECURSIVE SiftUpPushLoop_StaleOnBreak(_, _, _, _, _, _, _)
SiftUpPushLoop_StaleOnBreak(d, b, elt, hpos, cur, start, pos) ==
    IF cur > start
    THEN LET ancestor == Climb(b, start, cur) \div 2
         IN IF Get(d, ancestor) < elt
            THEN LET r == SiftUpPushLoop_StaleOnBreak(Set(d, hpos, Get(d, ancestor)),
                               IF TwoPosMinusOneLtLen(pos, Len(d))
                               THEN Flip(b, pos) ELSE b,
                               elt, ancestor, ancestor, start, pos)
                 IN [r EXCEPT !.moves = @ + 1]
            ELSE [data |-> d, bit |-> b, pos |-> hpos, moves |-> 0]
    ELSE [data |-> Set(d, hpos, elt), bit |-> b, pos |-> hpos, moves |-> 0]

\* Mutant of SiftUpPushLoop: a move flips the bit of the ancestor moved to,
\* not the bit of the entry position.
RECURSIVE SiftUpPushLoop_FlipAncestor(_, _, _, _, _, _, _)
SiftUpPushLoop_FlipAncestor(d, b, elt, hpos, cur, start, pos) ==
    IF cur > start
    THEN LET ancestor == Climb(b, start, cur) \div 2
         IN IF Get(d, ancestor) < elt
            THEN LET r == SiftUpPushLoop_FlipAncestor(Set(d, hpos, Get(d, ancestor)),
                               IF TwoPosMinusOneLtLen(pos, Len(d))
                               THEN Flip(b, ancestor) ELSE b,
                               elt, ancestor, ancestor, start, pos)
                 IN [r EXCEPT !.moves = @ + 1]
            ELSE [data |-> Set(d, hpos, elt), bit |-> b, pos |-> hpos, moves |-> 0]
    ELSE [data |-> Set(d, hpos, elt), bit |-> b, pos |-> hpos, moves |-> 0]

\* The outer loop of sift_up_push. d is the slice with a hole at hpos (the
\* slot still holds a stale copy), elt the element taken out by Hole::new.
\* On exit (break or cur = start) Drop for Hole writes elt back at hpos.
\* moves counts the calls of Hole::move_to.
RECURSIVE SiftUpPushLoop(_, _, _, _, _, _, _)
SiftUpPushLoop(d, b, elt, hpos, cur, start, pos) ==
    IF cur > start
    THEN LET ancestor == Climb(b, start, cur) \div 2
         IN IF Get(d, ancestor) < elt
            THEN LET r == SiftUpPushLoop(Set(d, hpos, Get(d, ancestor)),
                               IF TwoPosMinusOneLtLen(pos, Len(d))
                               THEN Flip(b, pos) ELSE b,
                               elt, ancestor, ancestor, start, pos)
                 IN [r EXCEPT !.moves = @ + 1]
            ELSE [data |-> Set(d, hpos, elt), bit |-> b, pos |-> hpos, moves |-> 0]
    ELSE [data |-> Set(d, hpos, elt), bit |-> b, pos |-> hpos, moves |-> 0]

\* Mutant of sift_up_push: the element climbs one ancestor at most.
sift_up_push_OneStep(h, start, pos) ==
    LET ancestor == Climb(h.bit, start, pos) \div 2
        elt == Get(h.data, pos)
    IN IF pos > start /\ Get(h.data, ancestor) < elt
       THEN [data |-> Set(Set(h.data, pos, Get(h.data, ancestor)), ancestor, elt),
             bit |-> IF TwoPosMinusOneLtLen(pos, Len(h.data))
                     THEN Flip(h.bit, pos) ELSE h.bit,
             pos |-> ancestor, moves |-> 1]
       ELSE [data |-> h.data, bit |-> h.bit, pos |-> pos, moves |-> 0]

\* sift_up_push(start, pos): returns the heap and the final resting index.
sift_up_push(h, start, pos) ==
    SiftUpPushLoop(h.data, h.bit, Get(h.data, pos), pos, pos, start, pos)

\* Mutant of Descend: the descent ignores the reverse bits and always takes
\* the child 2 * pos.
RECURSIVE Descend_IgnoreBit(_, _, _)
Descend_IgnoreBit(b, pos, end) ==
    IF pos * 2 < end THEN Descend_IgnoreBit(b, pos * 2, end) ELSE pos

\* First loop of sift_down_range: follow 2*pos + bit[pos] while it is < end.
RECURSIVE Descend(_, _, _)
Descend(b, pos, end) ==
    IF pos * 2 + AsUsize(Get(b, pos)) < end
    THEN Descend(b, pos * 2 + AsUsize(Get(b, pos)), end)
    ELSE pos

\* Mutant of Ascend: the swap is made but bit[pos] is not flipped.
RECURSIVE Ascend_NoFlip(_, _, _)
Ascend_NoFlip(h, start, pos) ==
    IF pos > start
    THEN Ascend_NoFlip(IF Get(h.data, start) < Get(h.data, pos)
                       THEN Heap(SwapAt(h.data, start, pos), h.bit)
                       ELSE h,
                       start, pos \div 2)
    ELSE h

\* Mutant of Ascend: the climb stops at the first level that needs no swap.
RECURSIVE Ascend_StopEarly(_, _, _)
Ascend_StopEarly(h, start, pos) ==
    IF pos > start /\ Get(h.data, start) < Get(h.data, pos)
    THEN Ascend_StopEarly(Heap(SwapAt(h.data, start, pos), Flip(h.bit, pos)),
                          start, pos \div 2)
    ELSE h

\* Second loop of sift_down_range: climb by halving, one comparison a level.
RECURSIVE Ascend(_, _, _)
Ascend(h, start, pos) ==
    IF pos > start
    THEN Ascend(IF Get(h.data, start) < Get(h.data, pos)
                THEN Heap(SwapAt(h.data, start, pos), Flip(h.bit, pos))
                ELSE h,
                start, pos \div 2)
    ELSE h

Max2(a, b) == IF a < b THEN b ELSE a
Min2(a, b) == IF a < b THEN a ELSE b

sift_down_range(h, start, end) ==
    IF end = 1 THEN h
    ELSE Ascend(h, start, Descend(h.bit, Max2(start, 1), end))

sift_down(h, pos) == sift_down_range(h, pos, len(h))

\* Mutant of AscendCmps: the count stops at the first level that needs no swap.
RECURSIVE AscendCmps_StopEarly(_, _, _)
AscendCmps_StopEarly(h, start, pos) ==
    IF pos > start
    THEN IF Get(h.data, start) < Get(h.data, pos)
         THEN 1 + AscendCmps_StopEarly(
                      Heap(SwapAt(h.data, start, pos), Flip(h.bit, pos)),
                      start, pos \div 2)
         ELSE 1
    ELSE 0

\* Evaluations of `data[start] < data[pos]` made by the second loop of
\* sift_down_range: one in every iteration of `while pos > start`.
RECURSIVE AscendCmps(_, _, _)
AscendCmps(h, start, pos) ==
    IF pos > start
    THEN 1 + AscendCmps(IF Get(h.data, start) < Get(h.data, pos)
                        THEN Heap(SwapAt(h.data, start, pos), Flip(h.bit, pos))
                        ELSE h,
                        start, pos \div 2)
    ELSE 0

\* Element comparisons of one sift_down_range call: the early return and the
\* first loop read only `end` and the bit vector.
SiftDownRangeCmps(h, start, end) ==
    IF end = 1 THEN 0
    ELSE AscendCmps(h, start, Descend(h.bit, Max2(start, 1), end))

\* rebuild: sift_up(0, n) for n = len-1 down to 1.
RECURSIVE RebuildFrom(_, _)
RebuildFrom(h, n) ==
    IF n >= 1 THEN RebuildFrom(sift_up(h, 0, n), n - 1) ELSE h

rebuild(h) == RebuildFrom(h, len(h) - 1)

\* The sift_up calls of rebuild's loop from index n down, in the order made:
\* the position and length each is made with, its comparisons and swaps,
\* and the heap it leaves.
RECURSIVE RebuildCalls(_, _)
RebuildCalls(h, n) ==
    IF n >= 1
    THEN LET g == sift_up(h, 0, n)
         IN <<[pos |-> n, len |-> len(h), cmps |-> SiftUpCmps(h, 0, n),
               swaps |-> SiftUpSwaps(h, 0, n), before |-> h, after |-> g]>>
            \o RebuildCalls(g, n - 1)
    ELSE << >>

\* rebuild_tail(start): sift_up_push(0, i) for i = start .. len-1.
RECURSIVE RebuildTailFrom(_, _)
RebuildTailFrom(h, i) ==
    IF i < len(h)
    THEN LET r == sift_up_push(h, 0, i)
         IN RebuildTailFrom(Heap(r.data, r.bit), i + 1)
    ELSE h

\* The heap at the head of every iteration of the loop of rebuild_tail,
\* from index i on, and the heap the loop ends with.
RECURSIVE RebuildTailStates(_, _)
RebuildTailStates(h, i) ==
    IF i < len(h)
    THEN LET r == sift_up_push(h, 0, i)
         IN <<h>> \o RebuildTailStates(Heap(r.data, r.bit), i + 1)
    ELSE <<h>>

\* Mutant of rebuild_tail: the loop starts one index too late.
rebuild_tail_SkipFirst(h, start) ==
    IF start = len(h) THEN h ELSE RebuildTailFrom(h, start + 1)

rebuild_tail(h, start) ==
    IF start = len(h) THEN h ELSE RebuildTailFrom(h, start)

\* One sift_up_push(0, pos) call: what it is made with and what it returns.
SiftUpPushCall(h, pos) ==
    [pos |-> pos, len |-> len(h), before |-> h, ret |-> sift_up_push(h, 0, pos)]

\* The sift_up_push calls of the loop of rebuild_tail from index i on, in
\* the order made, each on the heap the one before it left.
RECURSIVE RebuildTailCallsFrom(_, _)
RebuildTailCallsFrom(h, i) ==
    IF i < len(h)
    THEN LET c == SiftUpPushCall(h, i)
         IN <<c>> \o RebuildTailCallsFrom(Heap(c.ret.data, c.ret.bit), i + 1)
    ELSE << >>

RebuildTailCalls(h, start) ==
    IF start = len(h) THEN << >> ELSE RebuildTailCallsFrom(h, start)

\* -------------------------------------------------------- public operations
\* From<Vec<T>>::from and FromIterator::from_iter (which collects, then from)
from(vec) == rebuild(Heap(vec, Falses(Len(vec))))

\* Mutant of push: the new element is appended and never sifted up.
push_NoSift(h, item) == Heap(Append(h.data, item), Append(h.bit, FALSE))

\* push(item)
push(h, item) ==
    LET old_len == len(h)
        g == Heap(Append(h.data, item), Append(h.bit, FALSE))
    IN IF old_len # 0
       THEN LET r == sift_up_push(g, 0, old_len) IN Heap(r.data, r.bit)
       ELSE g

\* The sift_up_push calls of push(item).
PushCalls(h, item) ==
    LET old_len == len(h)
        g == Heap(Append(h.data, item), Append(h.bit, FALSE))
    IN IF old_len # 0 THEN <<SiftUpPushCall(g, old_len)>> ELSE << >>

\* Mutant of pop: `self.bit.pop()` is left out.
pop_KeepBit(h) ==
    IF h.data = << >>
    THEN [heap |-> h, ret |-> None]
    ELSE LET item == h.data[Len(h.data)]
             d == Front(h.data)
         IN IF d # << >>
            THEN [heap |-> sift_down(Heap(Set(d, 0, item), h.bit), 0),
                  ret |-> Some(Get(d, 0))]
            ELSE [heap |-> Heap(d, h.bit), ret |-> Some(item)]

\* Mutant of pop: the last element is moved to slot 0 and never sifted down.
pop_NoSift(h) ==
    LET b == VecPop(h.bit)
    IN IF h.data = << >>
       THEN [heap |-> Heap(h.data, b), ret |-> None]
       ELSE LET item == h.data[Len(h.data)]
                d == Front(h.data)
            IN IF d # << >>
               THEN [heap |-> Heap(Set(d, 0, item), b), ret |-> Some(Get(d, 0))]
               ELSE [heap |-> Heap(d, b), ret |-> Some(item)]

\* pop(): [heap, ret]
pop(h) ==
    LET b == VecPop(h.bit)
    IN IF h.data = << >>
       THEN [heap |-> Heap(h.data, b), ret |-> None]
       ELSE LET item == h.data[Len(h.data)]
                d == Front(h.data)
            IN IF d # << >>
               THEN [heap |-> sift_down(Heap(Set(d, 0, item), b), 0),
                     ret |-> Some(Get(d, 0))]
               ELSE [heap |-> Heap(d, b), ret |-> Some(item)]

\* Mutant of peek_mut: a handle is made without looking at is_empty().
peek_mut_NoEmptyCheck(h) == Some([sift |-> FALSE])

\* peek_mut(): None on an empty heap, else a handle whose flag is false. The
\* handle borrows the heap; only its `sift` field is kept here.
peek_mut(h) ==
    IF is_empty(h) THEN None ELSE Some([sift |-> FALSE])

\* Deref for WeakHeapPeekMut: reads slot 0 and touches nothing.
deref(h) == Get(h.data, 0)

\* Mutant of drop: the handle sifts whenever it is dropped, marked or not.
drop_AlwaysSift(h, s) ==
    [heap |-> sift_down(h, 0), sifts |-> 1,
     cmps |-> SiftDownRangeCmps(h, 0, len(h))]

\* Drop for WeakHeapPeekMut: `if self.sift { self.heap.sift_down(0) }`.
\* sifts and cmps count the sift_down calls and the element comparisons.
drop(h, s) ==
    IF s
    THEN [heap |-> sift_down(h, 0), sifts |-> 1,
          cmps |-> SiftDownRangeCmps(h, 0, len(h))]
    ELSE [heap |-> h, sifts |-> 0, cmps |-> 0]

\* Mutant of peek_mut_pop: the flag is set instead of cleared, so the drop of
\* the consumed handle sifts what is left.
peek_mut_pop_DirtyDrop(h, s) ==
    LET r == pop(h)
        d == IF is_empty(r.heap) THEN drop(r.heap, FALSE) ELSE drop(r.heap, TRUE)
    IN [heap |-> d.heap, ret |-> r.ret, sifts |-> d.sifts]

\* Mutant of peek_mut_pop: the handle is released first, sifting a written
\* slot 0 down, and the heap is popped afterwards.
peek_mut_pop_SiftFirst(h, s) ==
    LET d == drop(h, s)
        r == pop(d.heap)
    IN [heap |-> r.heap, ret |-> r.ret, sifts |-> d.sifts]

\* WeakHeapPeekMut::pop(this): `let value = this.heap.pop().unwrap();
\* this.sift = false; value`, then `this` is dropped. s is the flag on entry.
peek_mut_pop(h, s) ==
    LET r == pop(h)
        d == drop(r.heap, FALSE)
    IN [heap |-> d.heap, ret |-> r.ret, sifts |-> d.sifts]

\* Mutant of pushpop: the item is swapped into slot 0 and never sifted down.
pushpop_NoSift(h, item) ==
    IF len(h) = 0 THEN [heap |-> h, ret |-> item, swapped |-> FALSE]
    ELSE IF Get(h.data, 0) < item
         THEN [heap |-> h, ret |-> item, swapped |-> FALSE]
         ELSE [heap |-> Heap(Set(h.data, 0, item), h.bit),
               ret |-> Get(h.data, 0), swapped |-> TRUE]

\* pushpop(item): [heap, ret, swapped]. The elements are moved, not copied:
\* swapped tells that `swap(&mut item, &mut self.data[0])` ran, so that the
\* element handed back is the one that was stored in slot 0 and the argument
\* is now stored in the heap.
pushpop(h, item) ==
    IF len(h) = 0 THEN [heap |-> h, ret |-> item, swapped |-> FALSE]
    ELSE IF Get(h.data, 0) < item
         THEN [heap |-> h, ret |-> item, swapped |-> FALSE]
         ELSE [heap |-> sift_down(Heap(Set(h.data, 0, item), h.bit), 0),
               ret |-> Get(h.data, 0), swapped |-> TRUE]

\* Mutant of SortLoop: the window is not shrunk before the sift, so the
\* element just placed at end - 1 is sifted again.
RECURSIVE SortLoop_WideWindow(_, _)
SortLoop_WideWindow(h, end) ==
    IF end > 1
    THEN SortLoop_WideWindow(
             sift_down_range(Heap(SwapAt(h.data, 0, end - 1), h.bit), 0, end),
             end - 1)
    ELSE h

\* Mutant of SortStep: the maximum is swapped out and the prefix not sifted.
SortStep_NoSift(h, end) == Heap(SwapAt(h.data, 0, end), h.bit)

\* One iteration of the loop of into_sorted_vec, `end` already decremented:
\* swap slots 0 and end, then sift_down_range(0, end).
SortStep(h, end) ==
    sift_down_range(Heap(SwapAt(h.data, 0, end), h.bit), 0, end)

\* The loop of into_sorted_vec with window bound `end`.
RECURSIVE SortLoop(_, _)
SortLoop(h, end) ==
    IF end > 1
    THEN SortLoop(SortStep(h, end - 1), end - 1)
    ELSE h

\* The heap on entry to the loop of into_sorted_vec and at the end of each
\* of its iterations.
RECURSIVE SortLoopStates(_, _)
SortLoopStates(h, end) ==
    IF end > 1
    THEN <<h>> \o SortLoopStates(SortStep(h, end - 1), end - 1)
    ELSE <<h>>

into_vec(h) == h.data

into_sorted_vec(h) == into_vec(SortLoop(h, len(h)))

\* Extend::extend: push every element of the iterator in order.
RECURSIVE extend(_, _)
extend(h, xs) ==
    IF xs = << >> THEN h ELSE extend(push(h, Head(xs)), Tail(xs))

\* WeakHeap::with_capacity(capacity): two empty vectors; the capacity is
\* not part of the state.
with_capacity(capacity) == Heap(<< >>, << >>)

\* Clone::clone_from: each vector becomes a copy of the source's.
clone_from(h, source) == Heap(source.data, source.bit)

\* Vec::clear and Vec::drain(..): the vector is left empty at once; the
\* drain iterator owns the elements, front first.
VecClear(v) == SubSeq(v, 1, 0)
VecDrain(v) == [vec |-> SubSeq(v, 1, 0), iter |-> v]

\* Mutant of drain: `self.bit.clear()` is left out.
drain_KeepBit(h) ==
    LET d == VecDrain(h.data)
    IN [heap |-> Heap(d.vec, h.bit), iter |-> d.iter]

\* drain(): [heap, iter], iter being what Drain::next will hand out in order.
drain(h) ==
    LET b == VecClear(h.bit)
        d == VecDrain(h.data)
    IN [heap |-> Heap(d.vec, b), iter |-> d.iter]

\* clear(): `self.drain();`, the iterator dropped unused.
clear(h) == drain(h).heap

\* Vec::append(&mut self, other: &mut Vec): moves every element of `other`
\* to the end of `self`, leaving `other` empty.
VecAppend(a, b) == [self |-> a \o b, other |-> SubSeq(b, 1, 0)]

\* Mutant of append: the bit sequences are joined by copying, so other.bit
\* is not drained.
append_KeepOtherBit(h, o) ==
    LET a == IF len(h) < len(o) THEN o ELSE h
        b == IF len(h) < len(o) THEN h ELSE o
        start == Len(a.data)
        d == VecAppend(a.data, b.data)
    IN [self |-> rebuild_tail(Heap(d.self, a.bit \o b.bit), start),
        other |-> Heap(d.other, b.bit)]

\* append(other) up to the call of rebuild_tail: [heap, start, other].
\* mem::swap exchanges the two heaps whole, so after it `a` is what self
\* holds and `b` what other holds.
AppendJoin(h, o) ==
    LET a == IF len(h) < len(o) THEN o ELSE h
        b == IF len(h) < len(o) THEN h ELSE o
        start == Len(a.data)
        d == VecAppend(a.data, b.data)
        t == VecAppend(a.bit, b.bit)
    IN [heap |-> Heap(d.self, t.self), start |-> start,
        other |-> Heap(d.other, t.other)]

\* append(other): [self, other]
append(h, o) ==
    LET j == AppendJoin(h, o)
    IN [self |-> rebuild_tail(j.heap, j.start), other |-> j.other]

\* Mutant of append_vec: the tail is attached and rebuild_tail is not called.
append_vec_NoRebuild(h, vec) ==
    LET t == VecAppend(h.bit, Falses(Len(vec)))
        d == VecAppend(h.data, vec)
    IN [self |-> Heap(d.self, t.self), other |-> d.other]

\* append_vec(other) up to the call of rebuild_tail: [heap, start, other]
AppendVecJoin(h, vec) ==
    LET start == len(h)
        t == VecAppend(h.bit, Falses(Len(vec)))
        d == VecAppend(h.data, vec)
    IN [heap |-> Heap(d.self, t.self), start |-> start, other |-> d.other]

\* append_vec(other): [self, other]
append_vec(h, vec) ==
    LET j == AppendVecJoin(h, vec)
    IN [self |-> rebuild_tail(j.heap, j.start), other |-> j.other]

\* One unchecked access: the sequence, the index and the length the
\* sequence has at that moment.
DataAt(h, i) == [seq |-> "data", idx |-> i, len |-> Len(h.data)]
BitAt(h, i) == [seq |-> "bit", idx |-> i, len |-> Len(h.bit)]

\* The bit indices the climbing loop reads: the condition is
\* `ancestor > start && cur % 2 == bit[ancestor]`, so bit[ancestor] is read
\* only when ancestor > start.
RECURSIVE ClimbReads(_, _, _)
ClimbReads(b, start, cur) ==
    IF (cur \div 2) > start
    THEN {cur \div 2} \cup (IF cur % 2 = AsUsize(Get(b, cur \div 2))
                            THEN ClimbReads(b, start, cur \div 2) ELSE {})
    ELSE {}

\* The unchecked accesses of sift_up(start, pos): the bits of the climb,
\* data[ancestor] and data[pos] of the comparison and of the swap, and
\* bit[pos] when it is flipped.
SiftUpAccesses(h, start, pos) ==
    LET ancestor == Climb(h.bit, start, pos) \div 2
    IN {BitAt(h, i) : i \in ClimbReads(h.bit, start, pos)}
       \cup {DataAt(h, ancestor), DataAt(h, pos)}
       \cup (IF Get(h.data, ancestor) < Get(h.data, pos)
                 /\ TwoPosMinusOneLtLen(pos, Len(h.data))
              THEN {BitAt(h, pos)} ELSE {})

\* The iterations of the outer loop of sift_up_push, one record each: cur
\* at the top of the iteration, the index of the hole, the bits the inner
\* loop read and the number of times it ran, the ancestor handed to
\* Hole::get, whether Hole::move_to was called, and whether `2 * pos - 1`
\* was evaluated and bit[pos] written.
RECURSIVE SiftUpPushIters(_, _, _, _, _, _, _)
SiftUpPushIters(d, b, elt, hpos, cur, start, pos) ==
    IF cur > start
    THEN LET ancestor == Climb(b, start, cur) \div 2
             moved == Get(d, ancestor) < elt
             flips == moved /\ TwoPosMinusOneLtLen(pos, Len(d))
         IN <<[cur |-> cur, hole |-> hpos, ancestor |-> ancestor,
               reads |-> ClimbReads(b, start, cur),
               climbs |-> ClimbIters(b, start, cur),
               moved |-> moved, evals |-> IF moved THEN {pos} ELSE {},
               flips |-> flips]>>
            \o (IF moved
                THEN SiftUpPushIters(Set(d, hpos, Get(d, ancestor)),
                                     IF flips THEN Flip(b, pos) ELSE b,
                                     elt, ancestor, ancestor, start, pos)
                ELSE << >>)
    ELSE << >>

\* The values of pos with which sift_up(start, pos) evaluates `2 * pos - 1`:
\* the expression stands inside `if data[ancestor] < data[pos]`.
SiftUpEvals(h, start, pos) ==
    IF Get(h.data, Climb(h.bit, start, pos) \div 2) < Get(h.data, pos)
    THEN {pos} ELSE {}

\* Mutant of SiftUpPushEvals: `2 * pos - 1 < len` is computed once, before
\* the loop.
SiftUpPushEvals_Hoisted(h, start, pos) == {pos}

\* The values of pos with which sift_up_push(start, pos) evaluates
\* `2 * pos - 1`: the expression stands inside the loop `while cur > start`,
\* under `if hole.get(ancestor) < hole.element()`.
SiftUpPushEvals(h, start, pos) ==
    UNION {UNION {its[k].evals : k \in 1..Len(its)} :
           its \in {SiftUpPushIters(h.data, h.bit, Get(h.data, pos), pos, pos,
                                    start, pos)}}

\* The iterations of the call sift_up_push(start, pos) on heap h.
SiftUpPushItersOf(h, start, pos) ==
    SiftUpPushIters(h.data, h.bit, Get(h.data, pos), pos, pos, start, pos)

\* The calls of Hole::get and Hole::move_to made in the iterations `its` of
\* a sift_up_push on heap h: the index passed and the index the hole
\* occupies at the call.
HoleCalls(h, its) ==
    {[fn |-> "get", index |-> its[k].ancestor, hole |-> its[k].hole,
      len |-> Len(h.data)] : k \in 1..Len(its)}
    \cup {[fn |-> "move_to", index |-> its[k].ancestor,
           hole |-> its[k].hole, len |-> Len(h.data)] :
              k \in {j \in 1..Len(its) : its[j].moved}}

\* The unchecked accesses of sift_up_push(start, pos) on heap h, `its` being
\* its iterations: data[pos] in Hole::new, the bits of the climbs, bit[pos]
\* when flipped, the index and the hole of every Hole::get and
\* Hole::move_to, and the final hole, which the drop of the Hole fills.
SiftUpPushAccesses(h, pos, its) ==
    {DataAt(h, pos),
     DataAt(h, IF its = << >> THEN pos
               ELSE IF its[Len(its)].moved THEN its[Len(its)].ancestor
               ELSE its[Len(its)].hole)}
    \cup UNION {{BitAt(h, i) : i \in its[k].reads} : k \in 1..Len(its)}
    \cup {BitAt(h, pos) : k \in {j \in 1..Len(its) : its[j].flips}}
    \cup UNION {{DataAt(h, its[k].ancestor), DataAt(h, its[k].hole)} :
                   k \in 1..Len(its)}

\* The bit indices the descent loop of sift_down_range reads, the last
\* being the one whose distinguished child is not below `end`.
RECURSIVE DescendReads(_, _, _)
DescendReads(b, pos, end) ==
    {pos} \cup (IF pos * 2 + AsUsize(Get(b, pos)) < end
                THEN DescendReads(b, pos * 2 + AsUsize(Get(b, pos)), end)
                ELSE {})

\* The unchecked accesses of the ascent loop of sift_down_range.
RECURSIVE AscendAccesses(_, _, _)
AscendAccesses(h, start, pos) ==
    IF pos > start
    THEN {DataAt(h, start), DataAt(h, pos)}
         \cup (IF Get(h.data, start) < Get(h.data, pos)
                THEN {BitAt(h, pos)} ELSE {})
         \cup AscendAccesses(IF Get(h.data, start) < Get(h.data, pos)
                              THEN Heap(SwapAt(h.data, start, pos), Flip(h.bit, pos))
                              ELSE h,
                              start, pos \div 2)
    ELSE {}

\* The unchecked accesses of sift_down_range(start, end).
SiftDownAccesses(h, start, end) ==
    IF end = 1 THEN {}
    ELSE {BitAt(h, i) : i \in DescendReads(h.bit, Max2(start, 1), end)}
         \cup AscendAccesses(h, start, Descend(h.bit, Max2(start, 1), end))

\* The values cur takes in the climbing loop of sift_up and of
\* sift_up_push, the entry value first.
RECURSIVE ClimbPath(_, _, _)
ClimbPath(b, start, cur) ==
    <<cur>> \o (IF (cur \div 2) > start /\ (cur % 2 = AsUsize(Get(b, cur \div 2)))
                THEN ClimbPath(b, start, cur \div 2) ELSE << >>)

\* Mutant of DescendStart: the descent starts at `start` itself.
DescendStart_NoMax(start) == start

\* `let mut pos = start.max(1)`: where the descent of sift_down_range starts.
DescendStart(start) == Max2(start, 1)

\* The values pos takes in the descent loop of sift_down_range, the entry
\* value first. The loop is followed for at most `fuel` iterations, so that
\* a loop that makes no progress shows as a path whose last position still
\* satisfies the loop condition.
RECURSIVE DescendPath(_, _, _, _)
DescendPath(b, pos, end, fuel) ==
    <<pos>> \o (IF fuel > 0 /\ pos * 2 + AsUsize(Get(b, pos)) < end
                THEN DescendPath(b, pos * 2 + AsUsize(Get(b, pos)), end, fuel - 1)
                ELSE << >>)

\* The values pos takes in the body of the ascent loop of sift_down_range.
RECURSIVE AscendPath(_, _)
AscendPath(start, pos) ==
    IF pos > start THEN <<pos>> \o AscendPath(start, pos \div 2) ELSE << >>

\* One sift_down(pos) call, which is sift_down_range(pos, self.len()): the
\* bounds it is made with and the heap it is made on.
SiftDownCall(h, pos) ==
    [start |-> pos, end |-> len(h), len |-> len(h), heap |-> h]

\* The sift_down_range calls of pop().
PopSiftCalls(h) ==
    LET b == VecPop(h.bit)
    IN IF h.data = << >>
       THEN << >>
       ELSE LET item == h.data[Len(h.data)]
                d == Front(h.data)
            IN IF d # << >>
               THEN <<SiftDownCall(Heap(Set(d, 0, item), b), 0)>>
               ELSE << >>

\* The sift_down_range calls of pushpop(item).
PushPopSiftCalls(h, item) ==
    IF len(h) = 0 THEN << >>
    ELSE IF Get(h.data, 0) < item
         THEN << >>
         ELSE <<SiftDownCall(Heap(Set(h.data, 0, item), h.bit), 0)>>

\* The sift_down_range calls of the drop of a handle whose flag is s.
DropSiftCalls(h, s) ==
    IF s THEN <<SiftDownCall(h, 0)>> ELSE << >>

\* Mutant of PeekMutPopSiftCalls: `this.sift = false` is left out, the drop
\* of the consumed handle seeing the flag as it was on entry.
PeekMutPopSiftCalls_KeepFlag(h, s) ==
    PopSiftCalls(h) \o DropSiftCalls(pop(h).heap, s)

\* The sift_down_range calls of WeakHeapPeekMut::pop on a handle whose flag
\* is s on entry: those of pop(), then those of the drop with the flag clear.
PeekMutPopSiftCalls(h, s) ==
    PopSiftCalls(h) \o DropSiftCalls(pop(h).heap, FALSE)

\* The sift_down_range calls of the loop of into_sorted_vec with window
\* bound `end`, each on the heap the one before it left.
RECURSIVE SortSiftCalls(_, _)
SortSiftCalls(h, end) ==
    IF end > 1
    THEN <<[start |-> 0, end |-> end - 1, len |-> len(h),
            heap |-> Heap(SwapAt(h.data, 0, end - 1), h.bit)]>>
         \o SortSiftCalls(SortStep(h, end - 1), end - 1)
    ELSE << >>

\* The sift_down_range calls of one pop, pushpop, release, handle pop or
\* into_sorted_vec made on heap h, s being the flag of the handle and arg
\* the arguments.
SiftDownCalls(op, h, s, arg) ==
    IF op = "pop" THEN PopSiftCalls(h)
    ELSE IF op = "pushpop" THEN PushPopSiftCalls(h, arg[1])
    ELSE IF op = "release" THEN DropSiftCalls(h, s)
    ELSE IF op = "peek_mut_pop" THEN PeekMutPopSiftCalls(h, s)
    ELSE IF op = "into_sorted_vec" THEN SortSiftCalls(h, len(h))
    ELSE << >>

\* Mutant of SortSwapAccesses: the swap is made before `end -= 1`.
SortSwapAccesses_BeforeDecrement(c) ==
    {DataAt(c.heap, 0), DataAt(c.heap, c.end + 1)}

\* The accesses of the swap of into_sorted_vec that precedes the
\* sift_down_range call c: ptr and ptr.add(end), end already decremented.
SortSwapAccesses(c) ==
    {DataAt(c.heap, 0), DataAt(c.heap, c.end)}

\* The sift_up_push calls of append(other) and of append_vec(other).
AppendCalls(h, o) ==
    LET j == AppendJoin(h, o) IN RebuildTailCalls(j.heap, j.start)

AppendVecCalls(h, vec) ==
    LET j == AppendVecJoin(h, vec) IN RebuildTailCalls(j.heap, j.start)

\* The sift_up_push calls of one push, append or append_vec made on heap h
\* with the second heap o or the arguments arg.
SiftUpPushCalls(op, h, o, arg) ==
    IF op = "push" THEN PushCalls(h, arg[1])
    ELSE IF op = "append" THEN AppendCalls(h, o)
    ELSE IF op = "append_vec" THEN AppendVecCalls(h, arg)
    ELSE << >>

\* ------------------------------------------------------ reference notions
\* Used only to state properties; none of this models code.
Count(s, v) == Cardinality({i \in DOMAIN s : s[i] = v})
SameBag(s, t) == \A v \in Vals : Count(s, v) = Count(t, v)

RECURSIVE Repeat(_, _)
Repeat(v, n) == IF n = 0 THEN << >> ELSE <<v>> \o Repeat(v, n - 1)

\* s sorted in non-decreasing order, built from the multiplicities alone.
RECURSIVE SortedFrom(_, _)
SortedFrom(s, v) ==
    IF v > MaxVal THEN << >> ELSE Repeat(v, Count(s, v)) \o SortedFrom(s, v + 1)

Sorted(s) == SortedFrom(s, 1)

IsNonDecreasing(s) == \A i \in 1..(Len(s) - 1) : s[i] <= s[i + 1]
IsNonIncreasing(s) == \A i \in 1..(Len(s) - 1) : s[i] >= s[i + 1]
MaxOf(s) == CHOOSE m \in {s[i] : i \in DOMAIN s} : \A i \in DOMAIN s : s[i] <= m

\* The reference max-priority queue: a sorted sequence with extract-max.
RefPush(r, x) == Sorted(Append(r, x))
RefPop(r) ==
    IF r = << >> THEN [queue |-> r, ret |-> None]
    ELSE [queue |-> Front(r), ret |-> Some(r[Len(r)])]

\* The weak-heap ancestor of index i >= 1 (the bit-chasing walk from i), and
\* the ordering invariant over the prefix data[0..n).
RECURSIVE Chase(_, _)
Chase(b, cur) ==
    IF (cur \div 2) > 0 /\ (cur % 2 = AsUsize(Get(b, cur \div 2)))
    THEN Chase(b, cur \div 2)
    ELSE cur

anc(b, i) == Chase(b, i) \div 2

WeakHeapOrderedUpTo(h, n) ==
    \A i \in 1..(n - 1) : Get(h.data, i) <= Get(h.data, anc(h.bit, i))

WeakHeapOrdered(h) == WeakHeapOrderedUpTo(h, Len(h.data))

\* The nodes of the distinguished-child chain 1, 2*1 + bit[1], ... that lie
\* below end, and the floor of the binary logarithm.
RECURSIVE ChainNodes(_, _, _)
ChainNodes(b, pos, end) ==
    IF pos < end
    THEN {pos} \cup ChainNodes(b, 2 * pos + AsUsize(Get(b, pos)), end)
    ELSE {}

RECURSIVE Log2Floor(_)
Log2Floor(n) == IF n <= 1 THEN 0 ELSE 1 + Log2Floor(n \div 2)

\* Sum of the cmps fields of a sequence of call records, and the slots in
\* which two sequences of one length differ.
RECURSIVE SumCmps(_)
SumCmps(tr) == IF tr = << >> THEN 0 ELSE Head(tr).cmps + SumCmps(Tail(tr))

Diff(s, t) == {i \in DOMAIN s : s[i] # t[i]}

\* -------------------------------------------------------------- the state
VARIABLES
    data,      \* self.data of the heap the operations act on
    bit,       \* self.bit of that heap
    odata,     \* data of a second heap, the argument `other` of append
    obit,      \* bit of the second heap
    handle,    \* "none", or "held" while a WeakHeapPeekMut borrows the heap
    sift,      \* WeakHeapPeekMut::sift (FALSE while no handle exists)
    last,      \* the last call: [op, arg, ret] (what the caller passed and got)
    ref,       \* the reference max-priority queue driven by the same calls
    popped,    \* values returned by the pop() calls made in a row so far
    base       \* contents (sorted) of the heap when that row of pops began

vars == <<data, bit, odata, obit, handle, sift, last, ref, popped, base>>

Self == Heap(data, bit)
Other == Heap(odata, obit)

Call(op, arg, ret) == [op |-> op, arg |-> arg, ret |-> ret]

\* WeakHeap::new() for both heaps; no handle.
Init ==
    /\ data = << >>
    /\ bit = << >>
    /\ odata = << >>
    /\ obit = << >>
    /\ handle = "none"
    /\ sift = FALSE
    /\ last = Call("new", << >>, << >>)
    /\ ref = << >>
    /\ popped = << >>
    /\ base = << >>

\* What every call other than push and pop does to the bookkeeping: the
\* reference queue is reloaded with the heap's contents and a new row of
\* pops may begin.
Reload(d) ==
    /\ ref' = Sorted(d)
    /\ popped' = << >>
    /\ base' = Sorted(d)

\* let heap = WeakHeap::from(vec), on a variable that new, with_capacity or
\* clear left without elements (what From builds does not depend on what
\* the variable held before, and clear is possible wherever no handle is
\* held, so no heap is lost by building only from there).
From ==
    /\ handle = "none"
    /\ data = << >>
    /\ last.op \in {"new", "with_capacity", "clear"}
    /\ \E vec \in SeqsUpTo(Vals, MaxLen - Len(odata)) :
         \E r \in {from(vec)} :
           /\ data' = r.data
           /\ bit' = r.bit
           /\ last' = Call("from", vec, << >>)
           /\ Reload(data')
           /\ UNCHANGED <<odata, obit, handle, sift>>

\* heap.push(item)
Push ==
    /\ handle = "none"
    /\ Len(data) + Len(odata) < MaxLen
    /\ \E item \in Vals :
         \E r \in {push(Self, item)} :
           /\ data' = r.data
           /\ bit' = r.bit
           /\ last' = Call("push", <<item>>, << >>)
           /\ ref' = RefPush(ref, item)
           /\ popped' = << >>
           /\ base' = Sorted(data')
           /\ UNCHANGED <<odata, obit, handle, sift>>

\* heap.extend(iter)
Extend ==
    /\ handle = "none"
    /\ \E xs \in SeqsUpTo(Vals, Min2(MaxVec, MaxLen - Len(data) - Len(odata))) :
         \E r \in {extend(Self, xs)} :
           /\ Len(data) + Len(odata) + Len(xs) <= MaxLen
           /\ data' = r.data
           /\ bit' = r.bit
           /\ last' = Call("extend", << >>, << >>)
           /\ Reload(data')
           /\ UNCHANGED <<odata, obit, handle, sift>>

\* heap.pop()
Pop ==
    /\ handle = "none"
    /\ \E r \in {pop(Self)} :
           /\ data' = r.heap.data
           /\ bit' = r.heap.bit
           /\ last' = Call("pop", << >>, r.ret)
           /\ ref' = RefPop(ref).queue
           /\ popped' = popped \o r.ret
           /\ UNCHANGED <<odata, obit, handle, sift, base>>

\* heap.pushpop(item); ret records the value handed back and whether it is
\* the element taken out of slot 0 (1) or the argument itself (0).
PushPop ==
    /\ handle = "none"
    /\ \E item \in Vals :
         \E r \in {pushpop(Self, item)} :
           /\ data' = r.heap.data
           /\ bit' = r.heap.bit
           /\ last' = Call("pushpop", <<item>>, <<r.ret, AsUsize(r.swapped)>>)
           /\ Reload(data')
           /\ UNCHANGED <<odata, obit, handle, sift>>

\* heap.append(&mut other); arg records the two lengths before the call.
AppendOther ==
    /\ handle = "none"
    /\ \E r \in {append(Self, Other)} :
           /\ data' = r.self.data
           /\ bit' = r.self.bit
           /\ odata' = r.other.data
           /\ obit' = r.other.bit
           /\ last' = Call("append", <<Len(data), Len(odata)>>, << >>)
           /\ Reload(data')
           /\ UNCHANGED <<handle, sift>>

\* heap.append_vec(&mut vec); ret records what is left in vec.
AppendVec ==
    /\ handle = "none"
    /\ \E vec \in SeqsUpTo(Vals, Min2(MaxVec, MaxLen - Len(data) - Len(odata))) :
         \E r \in {append_vec(Self, vec)} :
           /\ Len(data) + Len(odata) + Len(vec) <= MaxLen
           /\ data' = r.self.data
           /\ bit' = r.self.bit
           /\ last' = Call("append_vec", vec, r.other)
           /\ Reload(data')
           /\ UNCHANGED <<odata, obit, handle, sift>>

\* heap.into_sorted_vec(): the heap is consumed; the program goes on with a
\* fresh WeakHeap::new(). arg records the contents that were consumed.
IntoSortedVec ==
    /\ handle = "none"
    /\ data' = << >>
    /\ bit' = << >>
    /\ last' = Call("into_sorted_vec", data, into_sorted_vec(Self))
    /\ Reload(data')
    /\ UNCHANGED <<odata, obit, handle, sift>>

\* heap.into_vec() or Vec::from(heap): the heap is consumed; the program goes
\* on with a fresh WeakHeap::new(). arg records the vector the heap was
\* built from when the call directly follows that From.
IntoVec ==
    /\ handle = "none"
    /\ data' = << >>
    /\ bit' = << >>
    /\ last' = Call("into_vec", IF last.op = "from" THEN last.arg ELSE << >>,
                    into_vec(Self))
    /\ Reload(data')
    /\ UNCHANGED <<odata, obit, handle, sift>>

\* heap.drain(), k calls of Drain::next, then the iterator is dropped. ret
\* records the elements handed out.
Drain ==
    /\ handle = "none"
    /\ \E r \in {drain(Self)} :
         \E k \in 0..Len(r.iter) :
           /\ data' = r.heap.data
           /\ bit' = r.heap.bit
           /\ last' = Call("drain", <<k>>, SubSeq(r.iter, 1, k))
           /\ Reload(data')
           /\ UNCHANGED <<odata, obit, handle, sift>>

\* heap.clear()
Clear ==
    /\ handle = "none"
    /\ \E r \in {clear(Self)} :
           /\ data' = r.data
           /\ bit' = r.bit
           /\ last' = Call("clear", << >>, << >>)
           /\ Reload(data')
           /\ UNCHANGED <<odata, obit, handle, sift>>

\* heap = WeakHeap::with_capacity(capacity)
WithCapacity ==
    /\ handle = "none"
    /\ \E capacity \in 0..MaxLen :
         \E r \in {with_capacity(capacity)} :
           /\ data' = r.data
           /\ bit' = r.bit
           /\ last' = Call("with_capacity", <<capacity>>, << >>)
           /\ Reload(data')
           /\ UNCHANGED <<odata, obit, handle, sift>>

\* heap.clone_from(&other)
CloneFrom ==
    /\ handle = "none"
    /\ 2 * Len(odata) <= MaxLen
    /\ \E r \in {clone_from(Self, Other)} :
           /\ data' = r.data
           /\ bit' = r.bit
           /\ last' = Call("clone_from", << >>, << >>)
           /\ Reload(data')
           /\ UNCHANGED <<odata, obit, handle, sift>>

\* heap.peek()
Peek ==
    /\ handle = "none"
    /\ last' = Call("peek", << >>, peek(Self))
    /\ UNCHANGED <<data, bit, odata, obit, handle, sift, ref, popped, base>>

\* heap.peek_mut(): None on an empty heap, else a handle with sift = false.
PeekMut ==
    /\ handle = "none"
    /\ \E r \in {peek_mut(Self)} :
           /\ handle' = IF Len(r) = 0 THEN "none" ELSE "held"
           /\ sift' = IF Len(r) = 0 THEN FALSE ELSE r[1].sift
    /\ last' = Call("peek_mut", << >>, peek(Self))
    /\ Reload(data)
    /\ UNCHANGED <<data, bit, odata, obit>>

\* let x = *handle: a read through Deref.
DerefRead ==
    /\ handle = "held"
    /\ last' = Call("deref", << >>, <<deref(Self)>>)
    /\ UNCHANGED <<data, bit, odata, obit, handle, sift, ref, popped, base>>

\* *handle = v: deref_mut marks the handle, the caller writes slot 0.
DerefMutWrite ==
    /\ handle = "held"
    /\ \E v \in Vals :
           /\ sift' = TRUE
           /\ data' = Set(data, 0, v)
           /\ last' = Call("deref_mut", <<v>>, <<Get(data, 0)>>)
           /\ UNCHANGED <<bit, odata, obit, handle, ref, popped, base>>

\* The handle goes out of scope: Drop for WeakHeapPeekMut. arg records the
\* value found in slot 0 when the handle was marked, ret the sift_down calls
\* and the element comparisons the drop made.
Release ==
    /\ handle = "held"
    /\ \E r \in {drop(Self, sift)} :
           /\ data' = r.heap.data
           /\ bit' = r.heap.bit
           /\ handle' = "none"
           /\ sift' = FALSE
           /\ last' = Call("release", IF sift THEN <<Get(data, 0)>> ELSE << >>,
                           <<r.sifts, r.cmps>>)
           /\ Reload(data')
           /\ UNCHANGED <<odata, obit>>

\* WeakHeapPeekMut::pop(handle), the drop of the consumed handle included.
\* arg records the flag on entry and the sift_down calls made by that drop.
PeekMutPop ==
    /\ handle = "held"
    /\ \E r \in {peek_mut_pop(Self, sift)} :
           /\ data' = r.heap.data
           /\ bit' = r.heap.bit
           /\ handle' = "none"
           /\ sift' = FALSE
           /\ last' = Call("peek_mut_pop", <<AsUsize(sift), r.sifts>>, r.ret)
           /\ Reload(data')
           /\ UNCHANGED <<odata, obit>>

\* let other = WeakHeap::from(vec), likewise on an empty variable
OtherFrom ==
    /\ handle = "none"
    /\ odata = << >>
    /\ \E vec \in SeqsUpTo(Vals, Min2(MaxOther, MaxLen - Len(data))) :
         \E r \in {from(vec)} :
           /\ Len(data) + Len(vec) <= MaxLen
           /\ odata' = r.data
           /\ obit' = r.bit
           /\ last' = Call("other_from", vec, << >>)
           /\ Reload(data)
           /\ UNCHANGED <<data, bit, handle, sift>>

\* other.push(item)
OtherPush ==
    /\ handle = "none"
    /\ Len(odata) < MaxOther
    /\ Len(data) + Len(odata) < MaxLen
    /\ \E item \in Vals :
         \E r \in {push(Other, item)} :
           /\ odata' = r.data
           /\ obit' = r.bit
           /\ last' = Call("other_push", <<item>>, << >>)
           /\ Reload(data)
           /\ UNCHANGED <<data, bit, handle, sift>>

\* other.pop()
OtherPop ==
    /\ handle = "none"
    /\ \E r \in {pop(Other)} :
           /\ odata' = r.heap.data
           /\ obit' = r.heap.bit
           /\ last' = Call("other_pop", << >>, r.ret)
           /\ Reload(data)
           /\ UNCHANGED <<data, bit, handle, sift>>

Next ==
    \/ From
    \/ Push
    \/ Extend
    \/ Pop
    \/ PushPop
    \/ AppendOther
    \/ AppendVec
    \/ IntoSortedVec
    \/ IntoVec
    \/ Drain
    \/ Clear
    \/ WithCapacity
    \/ CloneFrom
    \/ Peek
    \/ PeekMut
    \/ DerefRead
    \/ DerefMutWrite
    \/ Release
    \/ PeekMutPop
    \/ OtherFrom
    \/ OtherPush
    \/ OtherPop

Spec == Init /\ [][Next]_vars

\* ------------------------------------------------------------ properties

\* C1: weak-heap ordering invariant. Whenever no written-through handle is
\* pending (sift = FALSE), every index i >= 1 of either heap holds a value
\* <= the value at anc(i), the ancestor found by the bit-chasing walk.
C1_WeakHeapOrdering ==
    ~sift => WeakHeapOrdered(Self) /\ WeakHeapOrdered(Other)

\* A full heap, just produced by append, in which some index has a
\* bit-chased ancestor different from i div 2.
C1_Witness ==
    /\ last.op = "append"
    /\ Len(data) = MaxLen
    /\ \E i \in 1..(Len(data) - 1) : anc(bit, i) # i \div 2
    /\ \E i \in 1..(Len(data) - 1) : Get(data, i) > Get(data, i \div 2)

\* C2: max correctness. Whenever no written-through handle is pending,
\* peek() is None exactly when the heap is empty, and otherwise is Some of
\* the maximum of the values contained.
C2_PeekIsMax ==
    ~sift =>
        /\ (peek(Self) = None) <=> (data = << >>)
        /\ data # << >> => peek(Self) = Some(MaxOf(data))
        /\ (peek(Other) = None) <=> (odata = << >>)
        /\ odata # << >> => peek(Other) = Some(MaxOf(odata))

\* After a pop that left at least three elements, not all equal.
C2_Witness ==
    /\ last.op = "pop"
    /\ Len(data) >= 3
    /\ \E i \in DOMAIN data : data[i] < MaxOf(data)
    /\ peek(Self) = Some(MaxOf(data))

\* C3: sort correctness. into_sorted_vec called on the heap that
\* WeakHeap::from(S) has just built returns S sorted in non-decreasing
\* order, every value with its multiplicity.
C3_SortCorrect ==
    [][(last.op = "from" /\ last'.op = "into_sorted_vec")
          => last'.ret = Sorted(last.arg)]_vars

\* into_sorted_vec has returned <<1, 2, 3, 3>> for the contents From builds
\* from <<2, 3, 1, 3>> (a duplicate, neither sorted nor in heap order).
C3_Witness ==
    /\ last.op = "into_sorted_vec"
    /\ last.arg = from(<<2, 3, 1, 3>>).data
    /\ last.ret = <<1, 2, 3, 3>>

\* C4: push/pop refinement. Every pop() returns what extract-max returns on
\* the reference queue driven by the same calls, and after every push and
\* pop the heap and the reference queue have the same length.
C4_PushPopRefinement ==
    [][/\ last'.op = "pop" => last'.ret = RefPop(ref).ret
       /\ last'.op \in {"push", "pop"} => Len(data') = Len(ref')]_vars

\* A pop that returned a value and left three elements behind.
C4_Witness ==
    /\ last.op = "pop"
    /\ last.ret # None
    /\ Len(data) = 3
    /\ Len(ref) = 3

\* C5: pop sequence. In a row of pops on a heap of n elements the values
\* returned are in non-increasing order, they and what is left make up the
\* original contents, a pop returns None only once all n have been
\* returned, and a pop that returns a value returns the one recorded last.
C5_PopSequence ==
    last.op = "pop" =>
        /\ IsNonIncreasing(popped)
        /\ SameBag(popped \o data, base)
        /\ last.ret = None => (Len(popped) = Len(base) /\ data = << >>)
        /\ last.ret # None => last.ret = Some(popped[Len(popped)])

\* A heap of MaxLen elements, not all equal, popped until pop returned None.
C5_Witness ==
    /\ last.op = "pop"
    /\ last.ret = None
    /\ Len(base) = MaxLen
    /\ Len(popped) = MaxLen
    /\ popped[1] > popped[Len(popped)]

\* C6: pushpop equivalence. pushpop(x) returns what push(x) followed by
\* pop() returns on a copy of the heap, and leaves a heap of the same
\* length, with the same peek() and the same multiset of elements.
C6_PushPopEquivalence ==
    [][last'.op = "pushpop" =>
          \A c \in {pop(push(Self, last'.arg[1]))} :
             /\ c.ret = Some(last'.ret[1])
             /\ Len(c.heap.data) = Len(data')
             /\ peek(c.heap) = peek(Heap(data', bit'))
             /\ SameBag(c.heap.data, data')]_vars

\* pushpop on a heap of at least three elements that returned the old
\* maximum and had to sift the item below the new maximum.
C6_Witness ==
    /\ last.op = "pushpop"
    /\ Len(data) >= 3
    /\ last.arg[1] < last.ret[1]
    /\ last.arg[1] < Get(data, 0)

\* C7: append result. After A.append(B) the contents of A are the multiset
\* union of what A and B held, A is weak-heap ordered, A.peek() is the
\* maximum over both, and A.into_sorted_vec() is the sorted merge of both.
C7_AppendResult ==
    [][last'.op = "append" =>
          LET a == Heap(data', bit')
              both == data \o odata
          IN /\ SameBag(data', both)
             /\ WeakHeapOrdered(a)
             /\ peek(a) = IF both = << >> THEN None ELSE Some(MaxOf(both))
             /\ into_sorted_vec(a) = Sorted(both)]_vars

\* An append of two two-element heaps that gives a heap of four which is no
\* binary heap (some element exceeds the one at i div 2).
C7_Witness ==
    /\ last.op = "append"
    /\ last.arg = <<2, 2>>
    /\ Len(data) = 4
    /\ Get(data, 0) > Get(data, 1)
    /\ \E i \in 1..3 : Get(data, i) > Get(data, i \div 2)

\* C8: append drains its argument. After A.append(B) both sequences of B
\* have length 0 and len(A) is the sum of the two lengths before the call,
\* whichever operand was the larger.
C8_AppendDrains ==
    last.op = "append" =>
        /\ odata = << >>
        /\ obit = << >>
        /\ Len(data) = last.arg[1] + last.arg[2]
        /\ Len(bit) = last.arg[1] + last.arg[2]

\* An append in which self was the smaller, non-empty operand (the swap).
C8_Witness ==
    /\ last.op = "append"
    /\ last.arg[1] >= 1
    /\ last.arg[1] < last.arg[2]
    /\ Len(data) = last.arg[1] + last.arg[2]
    /\ odata = << >>

\* C9: append_vec. After A.append_vec(V) the sequence V is empty, len(A)
\* has grown by the length V had, the contents of A are the multiset union
\* of both, A is weak-heap ordered, and A.into_sorted_vec() is the sorted
\* concatenation.
C9_AppendVec ==
    [][last'.op = "append_vec" =>
          LET a == Heap(data', bit')
              both == data \o last'.arg
          IN /\ last'.ret = << >>
             /\ Len(data') = Len(data) + Len(last'.arg)
             /\ Len(bit') = Len(data')
             /\ SameBag(data', both)
             /\ WeakHeapOrdered(a)
             /\ into_sorted_vec(a) = Sorted(both)]_vars

\* append_vec of an ascending pair onto a non-empty heap, the second
\* element of the pair ending up as the new maximum.
C9_Witness ==
    /\ last.op = "append_vec"
    /\ Len(last.arg) = 2
    /\ last.arg[1] < last.arg[2]
    /\ Len(data) = 4
    /\ Get(data, 0) = last.arg[2]
    /\ Count(data, last.arg[2]) = 1

\* C10: peek_mut replace. Writing v through the handle of a non-empty heap
\* and releasing the handle leaves a weak-heap ordered heap of the same
\* length whose contents are the old contents with one occurrence of the
\* old maximum replaced by v, and whose peek() is the new maximum.
C10_PeekMutReplace ==
    [][(last.op = "deref_mut" /\ last'.op = "release") =>
          LET a == Heap(data', bit')
          IN /\ WeakHeapOrdered(a)
             /\ SameBag(data' \o <<MaxOf(base)>>, base \o last.arg)
             /\ Len(data') = Len(base)
             /\ Len(bit') = Len(base)
             /\ peek(a) = Some(MaxOf(data'))]_vars

\* A release that sifted a written value below the new maximum of a heap
\* of at least three elements.
C10_Witness ==
    /\ last.op = "release"
    /\ last.arg # << >>
    /\ Len(data) >= 3
    /\ last.arg[1] < Get(data, 0)
    /\ Get(data, 0) < MaxVal

\* C11: WeakHeapPeekMut::pop on a handle that was only read returns the
\* current maximum, removes exactly one occurrence of it, runs no sift_down
\* when the consumed handle is dropped, and leaves data and bit exactly as a
\* direct pop() on the same heap leaves them.
C11_PeekMutPopClean ==
    [][(last'.op = "peek_mut_pop" /\ ~sift) =>
          \A c \in {pop(Self)} :
             /\ last'.ret = Some(MaxOf(data))
             /\ Len(data') = Len(data) - 1
             /\ SameBag(data' \o last'.ret, data)
             /\ last'.arg = <<0, 0>>
             /\ last'.ret = c.ret
             /\ data' = c.heap.data
             /\ bit' = c.heap.bit]_vars

\* A pop through an unmarked handle that left at least two elements, the
\* sift of the pop having turned a bit on.
C11_Witness ==
    /\ last.op = "peek_mut_pop"
    /\ last.arg = <<0, 0>>
    /\ Len(data) >= 2
    /\ \E i \in 1..Len(bit) : bit[i]

\* C12: read-only peek_mut is a no-op. Acquiring a handle leaves the flag
\* clear, a read through Deref returns slot 0 and does not set the flag, and
\* releasing an unmarked handle makes no sift_down call and no element
\* comparison; each of the three steps leaves data and bit unchanged.
C12_ReadOnlyPeekMut ==
    [][/\ last'.op = "peek_mut" =>
            data' = data /\ bit' = bit /\ sift' = FALSE
       /\ last'.op = "deref" =>
            /\ data' = data /\ bit' = bit /\ sift' = sift
            /\ last'.ret = <<Get(data, 0)>>
       /\ (last'.op = "release" /\ ~sift) =>
            data' = data /\ bit' = bit /\ last'.ret = <<0, 0>>]_vars

\* An unmarked handle released on a heap of at least three elements that
\* has a bit turned on.
C12_Witness ==
    /\ last.op = "release"
    /\ last.arg = << >>
    /\ last.ret = <<0, 0>>
    /\ Len(data) >= 3
    /\ \E i \in 1..Len(bit) : bit[i]

C14_AbsenceOnEmpty ==
    [][/\ last'.op = "peek" =>
            /\ last'.ret = None <=> data = << >>
            /\ data' = data /\ bit' = bit
       /\ last'.op = "pop" =>
            /\ last'.ret = None <=> data = << >>
            /\ data = << >> => (data' = << >> /\ bit' = << >>)
       /\ last'.op = "peek_mut" =>
            /\ last'.ret = None <=> data = << >>
            /\ handle' = "none" <=> data = << >>
            /\ data' = data /\ bit' = bit]_vars

\* peek_mut on an empty heap: no value, no handle, the heap still empty.
C14_Witness ==
    /\ last.op = "peek_mut"
    /\ last.ret = None
    /\ handle = "none"
    /\ data = << >>
    /\ bit = << >>

\* C15: round trip. into_vec (Vec::from(heap)) hands back the stored values
\* in storage order; when it directly follows the build of the heap from a
\* vector S, the result is a permutation of S, its first element is max(S),
\* and S = [1, 3, 2] gives [3, 2, 1].
C15_RoundTrip ==
    [][last'.op = "into_vec" =>
          /\ last'.ret = data
          /\ last.op = "from" =>
                /\ SameBag(last'.ret, last.arg)
                /\ last.arg # << >> => last'.ret[1] = MaxOf(last.arg)
                /\ last.arg = <<1, 3, 2>> => last'.ret = <<3, 2, 1>>]_vars

\* The heap built from [1, 3, 2] converted back: [3, 2, 1].
C15_Witness ==
    /\ last.op = "into_vec"
    /\ last.arg = <<1, 3, 2>>
    /\ last.ret = <<3, 2, 1>>

\* C16: drain() hands out the elements in storage order, slot 0 first (all
\* of them when the iterator is run to its end), and leaves data and bit
\* empty whether the iterator was run to its end or dropped early; clear()
\* leaves the same empty heap; the elements pushed next (one by push, up to
\* MaxVec by extend) form a weak-heap ordered heap that sorts correctly.
C16_DrainClear ==
    [][/\ last'.op \in {"drain", "clear"} =>
            /\ data' = << >>
            /\ bit' = << >>
            /\ last'.op = "drain" =>
                  /\ last'.ret = SubSeq(data, 1, last'.arg[1])
                  /\ last'.arg[1] = Len(data) => last'.ret = data
       /\ (last.op \in {"drain", "clear"} /\ last'.op \in {"push", "extend"}) =>
            /\ Len(bit') = Len(data')
            /\ WeakHeapOrdered(Heap(data', bit'))
            /\ into_sorted_vec(Heap(data', bit')) = Sorted(data')]_vars

\* A drain run to its end that handed out three or more elements, the
\* maximum first and the rest in neither sorted order.
C16_Witness ==
    /\ last.op = "drain"
    /\ Len(last.ret) >= 3
    /\ last.arg = <<Len(last.ret)>>
    /\ last.ret[1] = MaxOf(last.ret)
    /\ ~IsNonDecreasing(last.ret)
    /\ ~IsNonIncreasing(last.ret)
    /\ data = << >>
    /\ bit = << >>

\* C17: data and bit have the same length in every reachable state of both
\* heaps, whichever of new, with_capacity, From, push, extend, pop, pushpop,
\* peek_mut, WeakHeapPeekMut::pop, append, append_vec, drain, clear and
\* clone_from led there, a handle being held or not.
C17_EqualLengths ==
    /\ Len(data) = Len(bit)
    /\ Len(odata) = Len(obit)

\* A clone of a two-element heap whose bit 1 is on, the source untouched.
C17_Witness ==
    /\ last.op = "clone_from"
    /\ Len(data) = 2
    /\ Len(bit) = 2
    /\ bit[2]
    /\ odata = data
    /\ obit = bit

\* C18: rebuild_tail step invariant. In append and append_vec, start being
\* the old length of the receiving heap (of the longer operand in append),
\* for every i from start to len - 1 the prefix data[0..i) with the bits of
\* that moment is weak-heap ordered just before sift_up_push(0, i) and the
\* prefix data[0..i] just after it, whatever bits the tail carries; the
\* loop makes len - start calls and ends in the heap the operation leaves.
C18_RebuildTailSteps ==
    [][last'.op \in {"append", "append_vec"} =>
          \A j \in {IF last'.op = "append"
                    THEN AppendJoin(Self, Other)
                    ELSE AppendVecJoin(Self, last'.arg)} :
            \A tr \in {RebuildTailStates(j.heap, j.start)} :
               /\ j.start = IF last'.op = "append"
                            THEN Max2(Len(data), Len(odata))
                            ELSE Len(data)
               /\ Len(tr) = Len(j.heap.data) - j.start + 1
               /\ \A k \in 1..Len(tr) :
                     WeakHeapOrderedUpTo(tr[k], j.start + k - 1)
               /\ tr[Len(tr)] = Heap(data', bit')]_vars

\* An append of a two-element heap to a two-element heap: the bit at index
\* 3, which no sift_up_push of a four-element heap flips, is on, so the tail
\* brought it along; the maximum occurs once.
C18_Witness ==
    /\ last.op = "append"
    /\ last.arg = <<2, 2>>
    /\ Len(bit) = 4
    /\ Get(bit, 3)
    /\ Count(data, Get(data, 0)) = 1

\* C19: into_sorted_vec loop invariant. At the end of every iteration, end
\* being the window bound, data[0..end) with the bits of that moment is
\* weak-heap ordered, data[end..len) is non-decreasing, every element of
\* data[end..len) is >= every element of data[0..end), and data holds the
\* multiset it held on entry; the loop runs len - 1 times and what it ends
\* with is what into_sorted_vec returns.
C19_SortLoopInvariant ==
    [][last'.op = "into_sorted_vec" =>
          \A tr \in {SortLoopStates(Self, Len(data))} :
             /\ Len(tr) = Max2(Len(data), 1)
             /\ tr[Len(tr)].data = last'.ret
             /\ \A k \in 2..Len(tr) :
                   LET end == Len(data) - (k - 1)
                       d == tr[k].data
                   IN /\ WeakHeapOrderedUpTo(tr[k], end)
                      /\ IsNonDecreasing(SubSeq(d, end + 1, Len(d)))
                      /\ \A i \in 0..(end - 1) :
                            \A m \in end..(Len(d) - 1) :
                               Get(d, m) >= Get(d, i)
                      /\ SameBag(d, data)]_vars

\* A heap of four elements sorted, the two middle values equal and the
\* outer ones strictly below and above them.
C19_Witness ==
    /\ last.op = "into_sorted_vec"
    /\ Len(last.ret) = 4
    /\ last.ret[1] < last.ret[2]
    /\ last.ret[2] = last.ret[3]
    /\ last.ret[3] < last.ret[4]

\* C20: sift_down_range comparison count. On every reachable heap, a handle
\* written through or not, and every window bound end: with end >= 2 the
\* call sift_down_range(0, end) compares elements once for each node of the
\* distinguished-child chain below end, the levels that need no swap
\* counted too and the descent adding none, and that is at most
\* floor(log2(end - 1)) + 1; with end = 1 it compares nothing and returns
\* the heap as it was.
C20_SiftDownComparisons ==
    \A end \in 1..Len(data) :
       \A cmps \in {SiftDownRangeCmps(Self, 0, end)} :
          IF end = 1
          THEN cmps = 0 /\ sift_down_range(Self, 0, end) = Self
          ELSE /\ cmps = Cardinality(ChainNodes(bit, 1, end))
               /\ cmps >= 1
               /\ cmps <= Log2Floor(end - 1) + 1

\* The drop of a written-through handle on a heap of four elements sifted
\* with two comparisons: the written value lies strictly above slots 2 and
\* 3 and strictly below the root, so it rests in slot 1; the comparison at
\* the chain's deepest node swapped nothing and the one at node 1 swapped.
C20_Witness ==
    /\ last.op = "release"
    /\ last.ret = <<1, 2>>
    /\ Len(data) = 4
    /\ last.arg[1] < Get(data, 0)
    /\ \A i \in 2..3 : Get(data, i) < last.arg[1]

\* C21: linear construction. From<Vec> on n elements starts from n bits
\* that are all false and calls sift_up(0, i) once for each i from n - 1
\* down to 1 in that order; each call compares elements exactly once and
\* either leaves data alone or exchanges two slots; the build makes n - 1
\* comparisons (none for n <= 1) and ends in the heap From returns.
C21_LinearConstruction ==
    [][last'.op = "from" =>
          LET n == Len(last'.arg)
              h0 == Heap(last'.arg, Falses(n))
          IN \A tr \in {RebuildCalls(h0, n - 1)} :
                /\ \A i \in 1..n : ~h0.bit[i]
                /\ Len(tr) = Max2(n - 1, 0)
                /\ \A k \in 1..Len(tr) :
                      /\ tr[k].pos = n - k
                      /\ tr[k].cmps = 1
                      /\ tr[k].swaps <= 1
                      /\ Cardinality(Diff(tr[k].before.data, tr[k].after.data))
                            <= 2 * tr[k].swaps
                      /\ SameBag(tr[k].before.data, tr[k].after.data)
                /\ SumCmps(tr) = Max2(n - 1, 0)
                /\ Heap(data', bit') = IF tr = << >> THEN h0
                                       ELSE tr[Len(tr)].after]_vars

\* A heap built from four elements in ascending order of three distinct
\* values: three calls, the root receiving the maximum.
C21_Witness ==
    /\ last.op = "from"
    /\ Len(last.arg) = 4
    /\ IsNonDecreasing(last.arg)
    /\ last.arg[1] < last.arg[4]
    /\ Get(data, 0) = last.arg[4]
    /\ data # last.arg

\* C22: in sift_up, when data[ancestor] < data[pos], bit[pos] is flipped
\* only if pos has two real children, that is, 2 * pos < len and
\* 2 * pos + 1 < len; with fewer than two children the elements are
\* swapped and bit[pos] is left as it was. Stated for the sift_up calls
\* of every build.
C22_FlipOnlyWithTwoChildren ==
    [][last'.op = "from" =>
          LET n == Len(last'.arg)
          IN \A tr \in {RebuildCalls(Heap(last'.arg, Falses(n)), n - 1)} :
                \A k \in 1..Len(tr) :
                   LET pos == tr[k].pos
                       flipped == Get(tr[k].after.bit, pos)
                                     # Get(tr[k].before.bit, pos)
                       two == 2 * pos < tr[k].len /\ 2 * pos + 1 < tr[k].len
                   IN /\ flipped => (tr[k].swaps = 1 /\ two)
                      /\ (tr[k].swaps = 1 /\ ~two) => ~flipped]_vars

\* C23: sift_up_push(0, pos) returns an index r at which data holds the
\* element that was at pos on entry, and data holds the same multiset as on
\* entry, on every exit path: the loop not entered (pos = 0), the early
\* break, and arrival at the root. Stated for every call that push, append
\* and append_vec make.
C23_SiftUpPushReturn ==
    [][last'.op \in {"push", "append", "append_vec"} =>
          \A tr \in {SiftUpPushCalls(last'.op, Self, Other, last'.arg)} :
             \A k \in 1..Len(tr) :
                LET c == tr[k]
                IN /\ c.ret.pos \in 0..c.pos
                   /\ Get(c.ret.data, c.ret.pos) = Get(c.before.data, c.pos)
                   /\ SameBag(c.ret.data, c.before.data)
                   /\ Len(c.ret.data) = c.len
                   /\ c.ret.moves = 0 <=> c.ret.pos = c.pos]_vars

\* A push onto a heap of three that climbed one ancestor and then broke off
\* below the root: the new element rests in slot 1, above the values of
\* slots 2 and 3 and below the root.
C23_Witness ==
    /\ last.op = "push"
    /\ Len(data) = 4
    /\ Get(data, 1) = last.arg[1]
    /\ Get(data, 0) > last.arg[1]
    /\ \A i \in 2..3 : Get(data, i) < last.arg[1]

\* C24: every call of sift_up and of sift_up_push that From, push (extend
\* is a row of pushes), append and append_vec make satisfies the documented
\* precondition pos < len and len > 1; in rebuild_tail in particular every
\* call sift_up_push(0, i) is made with len > 1 and i < len.
C24_SiftUpPreconditions ==
    [][/\ last'.op = "from" =>
            LET n == Len(last'.arg)
            IN \A tr \in {RebuildCalls(Heap(last'.arg, Falses(n)), n - 1)} :
                  \A k \in 1..Len(tr) :
                     tr[k].pos < tr[k].len /\ tr[k].len > 1
       /\ last'.op \in {"push", "append", "append_vec"} =>
            \A tr \in {SiftUpPushCalls(last'.op, Self, Other, last'.arg)} :
               \A k \in 1..Len(tr) :
                  tr[k].pos < tr[k].len /\ tr[k].len > 1]_vars

\* C25: every call of sift_down_range that pop, pushpop, the release of a
\* handle, WeakHeapPeekMut::pop and into_sorted_vec make satisfies
\* start < end <= len; none is made with end = 0, and none at all is made
\* by a step that finds the heap empty or leaves it empty.
C25_SiftDownPreconditions ==
    [][last'.op \in {"pop", "pushpop", "release", "peek_mut_pop",
                      "into_sorted_vec"} =>
          \A tr \in {SiftDownCalls(last'.op, Self, sift, last'.arg)} :
             /\ \A k \in 1..Len(tr) :
                   /\ tr[k].start < tr[k].end
                   /\ tr[k].end <= tr[k].len
                   /\ tr[k].end # 0
                   /\ tr[k].len = Len(tr[k].heap.data)
             /\ (data = << >> \/ (data' = << >> /\ last'.op # "into_sorted_vec"))
                   => tr = << >>]_vars

\* WeakHeapPeekMut::pop through a written-through handle on a heap of one
\* element: the heap is left empty and the flag was set on entry.
C25_Witness ==
    /\ last.op = "peek_mut_pop"
    /\ last.arg[1] = 1
    /\ data = << >>
    /\ bit = << >>

\* C26: every index with which sift_up, sift_up_push (Hole::new, Hole::get
\* and Hole::move_to included), sift_down_range and the swap of
\* into_sorted_vec read or write data or bit without a bounds check is
\* smaller than the length the sequence has at that moment, and Hole::get
\* and Hole::move_to are never handed the index the hole occupies.
C26_UncheckedAccessesInBounds ==
    [][/\ last'.op = "from" =>
            LET n == Len(last'.arg)
            IN \A tr \in {RebuildCalls(Heap(last'.arg, Falses(n)), n - 1)} :
                  \A k \in 1..Len(tr) :
                     \A a \in SiftUpAccesses(tr[k].before, 0, tr[k].pos) :
                        a.idx >= 0 /\ a.idx < a.len
       /\ last'.op \in {"push", "append", "append_vec"} =>
            \A tr \in {SiftUpPushCalls(last'.op, Self, Other, last'.arg)} :
               \A k \in 1..Len(tr) :
                  \A its \in {SiftUpPushItersOf(tr[k].before, 0, tr[k].pos)} :
                     /\ \A a \in SiftUpPushAccesses(tr[k].before, tr[k].pos, its) :
                           a.idx >= 0 /\ a.idx < a.len
                     /\ \A c \in HoleCalls(tr[k].before, its) :
                           c.index # c.hole /\ c.index < c.len /\ c.hole < c.len
       /\ last'.op \in {"pop", "pushpop", "release", "peek_mut_pop",
                         "into_sorted_vec"} =>
            \A tr \in {SiftDownCalls(last'.op, Self, sift, last'.arg)} :
               \A k \in 1..Len(tr) :
                  /\ \A a \in SiftDownAccesses(tr[k].heap, tr[k].start, tr[k].end) :
                        a.idx >= 0 /\ a.idx < a.len
                  /\ last'.op = "into_sorted_vec" =>
                        \A a \in SortSwapAccesses(tr[k]) :
                           a.idx >= 0 /\ a.idx < a.len]_vars

\* A push onto a heap of three whose element climbed to the root, the hole
\* having moved on the way; every older value is smaller.
C26_Witness ==
    /\ last.op = "push"
    /\ Len(data) = 4
    /\ Get(data, 0) = last.arg[1]
    /\ \A i \in 1..3 : Get(data, i) < last.arg[1]

\* C27: when slot 0 was overwritten through a peek_mut handle and
\* WeakHeapPeekMut::pop is then called on that handle, the call returns the
\* value written (the one in slot 0 on entry), whether or not it is the
\* maximum; the heap that remains is weak-heap ordered, has equal lengths
\* of data and bit, and holds the values the heap held when the handle was
\* taken less one occurrence of their maximum.
C27_MutateThenPop ==
    [][(last'.op = "peek_mut_pop" /\ sift) =>
          /\ last'.ret = Some(Get(data, 0))
          /\ last'.arg[1] = 1
          /\ WeakHeapOrdered(Heap(data', bit'))
          /\ Len(bit') = Len(data')
          /\ Len(data') = Len(base) - 1
          /\ SameBag(data' \o <<MaxOf(base)>>, base)]_vars

\* A pop through a written-through handle that returned a value smaller
\* than the root of the heap it left behind.
C27_Witness ==
    /\ last.op = "peek_mut_pop"
    /\ last.arg[1] = 1
    /\ Len(data) >= 2
    /\ last.ret # << >>
    /\ last.ret[1] < Get(data, 0)

\* C28: a call sift_up_push(0, pos) leaves every reverse bit other than
\* bit[pos] as it was, the bits of the ancestors climbed through included;
\* bit[pos] is toggled once for each level the element moves up, and only
\* when 2 * pos - 1 < len. Hence push, extend, append and append_vec leave
\* the bits below the first inserted position as they were (for append the
\* bits of the longer heap, which becomes self).
C28_SiftUpPushBitFrame ==
    [][/\ last'.op \in {"push", "append", "append_vec"} =>
            \A tr \in {SiftUpPushCalls(last'.op, Self, Other, last'.arg)} :
               \A k \in 1..Len(tr) :
                  LET c == tr[k]
                      toggles == IF c.pos >= 1 /\ 2 * c.pos - 1 < c.len
                                 THEN c.ret.moves ELSE 0
                  IN /\ Len(c.ret.bit) = Len(c.before.bit)
                     /\ \A i \in 0..(c.len - 1) :
                           i # c.pos => Get(c.ret.bit, i) = Get(c.before.bit, i)
                     /\ Get(c.ret.bit, c.pos) =
                           (Get(c.before.bit, c.pos) # (toggles % 2 = 1))
                     /\ c.pos >= IF last'.op = "append"
                                 THEN Max2(Len(data), Len(odata)) ELSE Len(data)
       /\ last'.op \in {"push", "extend", "append", "append_vec"} =>
            \A pre \in {IF last'.op = "append" /\ Len(data) < Len(odata)
                         THEN obit ELSE bit} :
               /\ Len(bit') >= Len(pre)
               /\ \A i \in 1..Len(pre) : bit'[i] = pre[i]]_vars

\* append_vec of two elements onto a heap of two whose bit[1] is set: the
\* first new element entered at position 2, moved to slot 1 and then to the
\* root, toggling bit[2] twice and leaving bit[1] set.
C28_Witness ==
    /\ last.op = "append_vec"
    /\ Len(last.arg) = 2
    /\ Len(data) = 4
    /\ Get(data, 0) = last.arg[1]
    /\ Get(data, 3) = last.arg[2]
    /\ Get(data, 1) < Get(data, 0)
    /\ Get(data, 2) < Get(data, 0)
    /\ Get(bit, 1)
    /\ ~Get(bit, 2)

\* C29: the loops terminate. In sift_up and sift_up_push cur strictly
\* decreases and stays above start while the loops run, and the outer loop
\* of sift_up_push hands a strictly smaller cur to each iteration; the
\* descent of sift_down_range starts at max(start, 1), never at 0, strictly
\* increases pos and stops at a position whose distinguished child is not
\* below end; its ascent strictly decreases pos by halving down to start;
\* rebuild makes max(len - 1, 0) sift_up calls and rebuild_tail at most
\* len - start sift_up_push calls; the loop of into_sorted_vec runs exactly
\* len - 1 times for len >= 1, and not at all for len = 0.
C29_Termination ==
    [][/\ last'.op = "from" =>
            LET n == Len(last'.arg)
            IN \A tr \in {RebuildCalls(Heap(last'.arg, Falses(n)), n - 1)} :
                  /\ Len(tr) = Max2(n - 1, 0)
                  /\ \A k \in 1..Len(tr) :
                        \A p \in {ClimbPath(tr[k].before.bit, 0, tr[k].pos)} :
                           /\ p[1] = tr[k].pos
                           /\ \A j \in 1..(Len(p) - 1) : p[j + 1] < p[j]
                           /\ p[Len(p)] > 0
                           /\ Len(p) <= Log2Floor(tr[k].pos) + 1
       /\ last'.op \in {"push", "append", "append_vec"} =>
            \A tr \in {SiftUpPushCalls(last'.op, Self, Other, last'.arg)} :
               /\ Len(tr) <= Len(data') - (IF last'.op = "append"
                                           THEN Max2(Len(data), Len(odata))
                                           ELSE Len(data))
               /\ \A k \in 1..Len(tr) :
                     \A its \in {SiftUpPushItersOf(tr[k].before, 0, tr[k].pos)} :
                        /\ Len(its) <= Log2Floor(tr[k].pos) + 1
                        /\ \A j \in 1..Len(its) :
                              /\ its[j].cur > 0
                              /\ its[j].ancestor < its[j].cur
                              /\ its[j].climbs <= Log2Floor(its[j].cur)
                              /\ j < Len(its) => /\ its[j].moved
                                                 /\ its[j + 1].cur = its[j].ancestor
                                                 /\ its[j + 1].cur < its[j].cur
                        /\ tr[k].pos > 0 => its # << >>
                        /\ its # << >> =>
                              (its[Len(its)].moved => its[Len(its)].ancestor = 0)
       /\ last'.op \in {"pop", "pushpop", "release", "peek_mut_pop",
                         "into_sorted_vec"} =>
            \A tr \in {SiftDownCalls(last'.op, Self, sift, last'.arg)} :
               /\ last'.op = "into_sorted_vec" =>
                     Len(tr) = IF Len(data) >= 1 THEN Len(data) - 1 ELSE 0
               /\ \A k \in {j \in 1..Len(tr) : tr[j].end # 1} :
                     \A p \in {DescendPath(tr[k].heap.bit, DescendStart(tr[k].start),
                                            tr[k].end, tr[k].end)} :
                        /\ p[1] = Max2(tr[k].start, 1)
                        /\ p[1] # 0
                        /\ \A j \in 1..(Len(p) - 1) : p[j] < p[j + 1]
                        /\ p[Len(p)] < tr[k].end
                        /\ ~(p[Len(p)] * 2 + AsUsize(Get(tr[k].heap.bit, p[Len(p)]))
                               < tr[k].end)
                        /\ p[Len(p)] = Descend(tr[k].heap.bit, Max2(tr[k].start, 1),
                                               tr[k].end)
                        /\ \A q \in {AscendPath(tr[k].start, p[Len(p)])} :
                              /\ q # << >>
                              /\ \A j \in 1..(Len(q) - 1) :
                                    q[j + 1] = q[j] \div 2 /\ q[j + 1] < q[j]
                              /\ q[Len(q)] \div 2 = tr[k].start
                              /\ Len(q) = Len(p)]_vars

\* into_sorted_vec on four elements of which the smallest and the largest
\* differ and which were not in ascending order: the loop ran three times.
C29_Witness ==
    /\ last.op = "into_sorted_vec"
    /\ Len(last.arg) = 4
    /\ Len(last.ret) = 4
    /\ last.ret[1] < last.ret[4]
    /\ last.arg # last.ret

\* C30: the expression 2 * pos - 1 of sift_up and of sift_up_push is never
\* evaluated with pos = 0, in any call made by From, push (extend is a row
\* of pushes), append and append_vec; the call sift_up_push(0, 0) that
\* append_vec makes on an empty heap does not evaluate it at all.
C30_NoUnderflow ==
    [][/\ last'.op = "from" =>
            LET n == Len(last'.arg)
            IN \A tr \in {RebuildCalls(Heap(last'.arg, Falses(n)), n - 1)} :
                  \A k \in 1..Len(tr) :
                     0 \notin SiftUpEvals(tr[k].before, 0, tr[k].pos)
       /\ last'.op \in {"push", "append", "append_vec"} =>
            \A tr \in {SiftUpPushCalls(last'.op, Self, Other, last'.arg)} :
               /\ \A k \in 1..Len(tr) :
                     \A ev \in {SiftUpPushEvals(tr[k].before, 0, tr[k].pos)} :
                        /\ 0 \notin ev
                        /\ tr[k].pos = 0 => ev = {}
                        /\ (ev # {}) = (tr[k].ret.moves > 0)
               /\ (last'.op = "append_vec" /\ data = << >> /\ last'.arg # << >>)
                     => tr[1].pos = 0]_vars

\* append_vec of two elements onto an empty heap: sift_up_push(0, 0) was
\* called, then sift_up_push(0, 1) moved the larger second element to the
\* root.
C30_Witness ==
    /\ last.op = "append_vec"
    /\ Len(last.arg) = 2
    /\ Len(data) = 2
    /\ last.arg[1] < last.arg[2]
    /\ Get(data, 0) = last.arg[2]
    /\ Get(data, 1) = last.arg[1]

====
